---------------------------- MODULE Spec2Model ----------------------------
(***************************************************************************)
(* Multi-user blogging platform: the post and category routers over the    *)
(* relational store (users, posts, categories, post_categories).           *)
(*                                                                         *)
(* Every handler is a sequence of SQL statements separated by awaits.  A   *)
(* statement is atomic (autocommit); the handler as a whole is not: no     *)
(* handler opens a transaction.  One action of the model is one statement  *)
(* of one request in flight, together with the handler code that runs up   *)
(* to the next await (or up to the return / throw).                        *)
(*                                                                         *)
(* Strings are sequences of one-character strings.                         *)
(***************************************************************************)
EXTENDS Integers, Sequences, FiniteSets, TLC

(***************************************************************************)
(* Optional values: undefined/null is None, a present value x is Some(x).  *)
(***************************************************************************)
None == <<>>
Some(x) == <<x>>
Opt(S) == {None} \cup {Some(x) : x \in S}
Range(s) == {s[i] : i \in 1..Len(s)}

(***************************************************************************)
(* Bounds of the model.                                                    *)
(***************************************************************************)
\* posts.id is a serial: at most MaxPosts post rows are ever inserted.
MaxPosts == 2
\* categories.id is a serial: at most MaxCats category rows are ever inserted.
MaxCats == 2
\* getAll is called with limit in 1..MaxLimit and offset in 0..MaxLimit-1.
MaxLimit == 2

(***************************************************************************)
(* Storage constraints of the posts and categories tables.                 *)
(***************************************************************************)
TitleMinLength == 5
TitleMaxLength == 200
SlugMinLength == 3
CategoryNameMinLength == 2
CategorySlugMinLength == 2

(***************************************************************************)
(* Text: generateSlug and SQL LIKE.                                        *)
(***************************************************************************)
UpperCase == <<"A", "B", "C", "D", "E", "F", "G", "H", "I", "J", "K", "L", "M",
               "N", "O", "P", "Q", "R", "S", "T", "U", "V", "W", "X", "Y", "Z">>
LowerCase == <<"a", "b", "c", "d", "e", "f", "g", "h", "i", "j", "k", "l", "m",
               "n", "o", "p", "q", "r", "s", "t", "u", "v", "w", "x", "y", "z">>
Digits == {"0", "1", "2", "3", "4", "5", "6", "7", "8", "9"}
WhiteSpace == {" "}

\* String.prototype.toLowerCase, one character.
ToLowerChar(c) ==
    IF \E i \in 1..Len(UpperCase) : UpperCase[i] = c
    THEN LowerCase[CHOOSE i \in 1..Len(UpperCase) : UpperCase[i] = c]
    ELSE c

toLowerCase(text) == [i \in 1..Len(text) |-> ToLowerChar(text[i])]

RECURSIVE TrimStart(_)
TrimStart(text) ==
    IF text # <<>> /\ Head(text) \in WhiteSpace THEN TrimStart(Tail(text)) ELSE text

RECURSIVE TrimEnd(_)
TrimEnd(text) ==
    IF text # <<>> /\ text[Len(text)] \in WhiteSpace
    THEN TrimEnd(SubSeq(text, 1, Len(text) - 1))
    ELSE text

\* String.prototype.trim
trim(text) == TrimEnd(TrimStart(text))

\* [a-z0-9]
IsSlugChar(c) == c \in Range(LowerCase) \cup Digits

\* .replace(/[^a-z0-9]+/g, "-"): every maximal run of other characters
\* becomes one hyphen.
RECURSIVE ReplaceRuns(_, _)
ReplaceRuns(text, inRun) ==
    IF text = <<>> THEN <<>>
    ELSE IF IsSlugChar(Head(text)) THEN <<Head(text)>> \o ReplaceRuns(Tail(text), FALSE)
    ELSE IF inRun THEN ReplaceRuns(Tail(text), TRUE)
    ELSE <<"-">> \o ReplaceRuns(Tail(text), TRUE)

\* Mutant of StripEdgeHyphens: the hyphens at the edges are kept.
KeepEdgeHyphens(text) == text

\* .replace(/(^-|-$)/g, ""): one hyphen at the start and one at the end.
StripEdgeHyphens(text) ==
    LET a == IF text # <<>> /\ Head(text) = "-" THEN Tail(text) ELSE text
    IN  IF a # <<>> /\ a[Len(a)] = "-" THEN SubSeq(a, 1, Len(a) - 1) ELSE a

generateSlug(text) == StripEdgeHyphens(ReplaceRuns(trim(toLowerCase(text)), FALSE))

\* SQL: text LIKE pattern.  % matches any sequence of characters, _ any one
\* character, every other character itself (case-sensitively).
RECURSIVE Like(_, _)
Like(text, pattern) ==
    IF pattern = <<>> THEN text = <<>>
    ELSE IF Head(pattern) = "%"
         THEN Like(text, Tail(pattern)) \/ (text # <<>> /\ Like(Tail(text), pattern))
    ELSE IF text = <<>> THEN FALSE
    ELSE (Head(pattern) = "_" \/ Head(pattern) = Head(text))
         /\ Like(Tail(text), Tail(pattern))

\* like(posts.title, `%${input.search}%`)
TitleLike(title, search) == Like(title, <<"%">> \o search \o <<"%">>)

\* search occurs in title as a substring.
Contains(title, search) ==
    \E i \in 1..(Len(title) - Len(search) + 1) :
        SubSeq(title, i, i + Len(search) - 1) = search

(***************************************************************************)
(* Inputs.                                                                 *)
(***************************************************************************)
Hello == <<"H", "e", "l", "l", "o">>
HelloBang == <<"h", "e", "l", "l", "o", "!">>
World == <<"W", "o", "r", "l", "d">>
\* Hello and HelloBang are different titles with the same slug.
Titles == {Hello, HelloBang, World}

\* Content bodies.
Lorem == <<"l", "o", "r", "e", "m">>
Ipsum == <<"i", "p", "s", "u", "m">>
Contents == {Lorem, Ipsum}

Art == <<"A", "r", "t">>
Tech == <<"T", "e", "c", "h">>
CategoryNames == {Art, Tech}

\* Clerk user ids; both start with the same eight characters.
ClerkA == <<"u", "s", "e", "r", "_", "2", "a", "b", "X">>
ClerkB == <<"u", "s", "e", "r", "_", "2", "a", "b", "Y">>
ClerkIds == {ClerkA, ClerkB}
SessionIds == {"sess_1"}

\* The request context built by createTRPCContext.
Contexts == [userId : Opt(ClerkIds), sessionId : Opt(SessionIds)]
SignedIn == [userId |-> Some(ClerkA), sessionId |-> Some("sess_1")]
Visitor == [userId |-> None, sessionId |-> None]
SignedInContexts == {c \in Contexts : c.userId # None /\ c.sessionId # None}

\* z.array(idSchema): lists of positive ids, here of length 0..2.
CategoryIdLists ==
    {<<>>} \cup {<<a>> : a \in 1..MaxCats} \cup {<<a, b>> : a, b \in 1..MaxCats}

SearchStrings == {<<>>, <<"e", "l">>, <<"W">>, <<"_">>}

(***************************************************************************)
(* State.                                                                  *)
(***************************************************************************)
VARIABLES
    router,          \* which of the two post routers is mounted
    users,           \* table users: set of rows
    posts,           \* table posts: id -> row
    categories,      \* table categories: id -> row
    postCategories,  \* table post_categories: set of <<postId, categoryId>>
    nextUserId,      \* serial users.id
    nextPostId,      \* serial posts.id
    nextCatId,       \* serial categories.id
    clock,           \* now(), as used by defaultNow()
    req,             \* requests: process -> the call it serves
    pre,             \* the tables as they were when the call being served arrived
    tags,            \* table tags: id -> row
    nextTagId,       \* serial tags.id
    filterStore,     \* the state of useFilterStore (client)
    retryButton      \* the props and state of a mounted RetryButton (client)

tables == <<users, posts, categories, postCategories>>
serials == <<nextUserId, nextPostId, nextCatId, clock>>
vars == <<router, users, posts, categories, postCategories,
          nextUserId, nextPostId, nextCatId, clock, req, pre,
          tags, nextTagId, filterStore, retryButton>>
\* What no handler of the post and category routers writes.
outside == <<router, tags, nextTagId, filterStore, retryButton>>

Procs == {"r1", "r2"}

Snapshot ==
    [users |-> users, posts |-> posts, categories |-> categories,
     postCategories |-> postCategories]

NoRequest ==
    [op |-> "none", pc |-> "done", ctx |-> SignedIn, in |-> None,
     status |-> "none", loc |-> None, out |-> None]

SeedUser ==
    [id |-> 1, username |-> <<"a", "d", "m", "i", "n">>,
     email |-> <<"a", "d", "m", "i", "n", "@", "x", ".", "i", "o">>]

Routers == {"post.ts", "part_008"}

\* useFilterStore: initialState.  filterHistory is Some(list), or None when
\* the field holds undefined; historyIndex is Some(n), or None when the field
\* holds undefined or NaN.
initialState ==
    [searchQuery |-> <<>>, selectedCategoryId |-> None, selectedTagIds |-> <<>>,
     showPublishedOnly |-> FALSE, authorId |-> None,
     dateRange |-> [from |-> None, to |-> None],
     sortBy |-> "createdAt", sortOrder |-> "desc", isFilterPanelOpen |-> FALSE,
     hasActiveFilters |-> FALSE, filterHistory |-> Some(<<>>), historyIndex |-> Some(-1)]

\* RetryButton: the default of the maxRetries prop.
DefaultMaxRetries == 3

\* RetryButton when mounted: the useState initial values.  runs holds the
\* handleRetry calls that have not finished: each waits for its backoff timer
\* or for onRetry.  failed counts the attempts that have failed since the
\* last success.
Mounted(maxRetries) ==
    [maxRetries |-> maxRetries, isRetrying |-> FALSE, retryCount |-> 0, error |-> None,
     runs |-> <<>>, failed |-> 0]

\* Outside the post and category routers: no tag row, the filter store and a
\* retry button as created.
InitOutside ==
    /\ tags = <<>>
    /\ nextTagId = 1
    /\ filterStore = initialState
    /\ retryButton = Mounted(DefaultMaxRetries)

\* The store before the first request: empty tables, with or without the
\* placeholder user (id 1) the post router writes as author.
Init ==
    /\ router \in Routers
    /\ InitOutside
    /\ \/ users = {} /\ nextUserId = 1
       \/ users = {SeedUser} /\ nextUserId = 2
    /\ posts = <<>>
    /\ categories = <<>>
    /\ postCategories = {}
    /\ nextPostId = 1
    /\ nextCatId = 1
    /\ clock = 1
    /\ req = [p \in Procs |-> NoRequest]
    /\ pre = Snapshot

(***************************************************************************)
(* Storage: constraints of the schema, as error codes of the statement.    *)
(* A CHECK constraint is tested on the row, a unique index when the row is *)
(* stored, a foreign key at the end of the statement.                      *)
(***************************************************************************)
CheckViolation == "23514"
StringTooLong == "22001"
UniqueViolation == "23505"
ForeignKeyViolation == "23503"

UserIdsStored == {u.id : u \in users}
PostIds == DOMAIN posts
CategoryIds == DOMAIN categories

\* posts: title_min_length, slug_min_length
PostChecks(row) == Len(row.title) >= TitleMinLength /\ Len(row.slug) >= SlugMinLength

\* Mutant of PostSlugFree: the index on posts.slug is not unique.
PostSlugNotIndexed(row) == TRUE

\* posts_slug_idx: no other post row has this slug.
PostSlugFree(row) == \A i \in PostIds : i # row.id => posts[i].slug # row.slug

\* posts_author_fk
PostAuthorExists(row) == row.authorId \in UserIdsStored

\* INSERT INTO posts / UPDATE posts of one row: "ok" or the error code.
PostRowError(row) ==
    IF Len(row.title) > TitleMaxLength THEN StringTooLong
    ELSE IF ~PostChecks(row) THEN CheckViolation
    ELSE IF ~PostSlugFree(row) THEN UniqueViolation
    ELSE IF ~PostAuthorExists(row) THEN ForeignKeyViolation
    ELSE "ok"

StorePost(row) == [i \in PostIds \cup {row.id} |-> IF i = row.id THEN row ELSE posts[i]]

\* users_username_idx, users_email_idx
UserRowError(row) ==
    IF \E u \in users : u.username = row.username \/ u.email = row.email
    THEN UniqueViolation
    ELSE "ok"

\* Mutant of PostCategoriesError: post_categories has no constraint.
PostCategoriesUnchecked(postId, categoryIds) == "ok"

\* INSERT INTO post_categories VALUES (postId, c1), (postId, c2), ...
\* post_categories_unique_idx, post_categories_post_fk, post_categories_category_fk
PostCategoriesError(postId, categoryIds) ==
    IF \/ \E i, j \in 1..Len(categoryIds) : i # j /\ categoryIds[i] = categoryIds[j]
       \/ \E i \in 1..Len(categoryIds) : <<postId, categoryIds[i]>> \in postCategories
    THEN UniqueViolation
    ELSE IF postId \notin PostIds \/ \E i \in 1..Len(categoryIds) : categoryIds[i] \notin CategoryIds
    THEN ForeignKeyViolation
    ELSE "ok"

PostCategoryRows(postId, categoryIds) == {<<postId, categoryIds[i]>> : i \in 1..Len(categoryIds)}

\* Mutant of DeleteCategoriesOfPost: the existing rows are kept (the new
\* list is added to them).
KeepCategoriesOfPost(id) == postCategories

\* Mutant of DeleteCategoriesOfPost: the where clause compares categoryId.
DeleteByCategoryId(id) == {r \in postCategories : r[2] # id}

\* db.delete(postCategories).where(eq(postCategories.postId, id))
DeleteCategoriesOfPost(id) == {r \in postCategories : r[1] # id}

\* categories: name/slug length checks, categories_name_idx, categories_slug_idx,
\* categories_parent_fk
CategoryRowError(row) ==
    IF Len(row.name) < CategoryNameMinLength \/ Len(row.slug) < CategorySlugMinLength
    THEN CheckViolation
    ELSE IF \E i \in CategoryIds : i # row.id /\ (categories[i].name = row.name \/ categories[i].slug = row.slug)
    THEN UniqueViolation
    ELSE IF row.parentId # None /\ row.parentId[1] \notin CategoryIds \cup {row.id}
    THEN ForeignKeyViolation
    ELSE "ok"

StoreCategory(row) ==
    [i \in CategoryIds \cup {row.id} |-> IF i = row.id THEN row ELSE categories[i]]

\* The categories a post is associated with.
CategoriesOf(postId) == {r[2] : r \in {x \in postCategories : x[1] = postId}}

(***************************************************************************)
(* tRPC procedures.                                                        *)
(***************************************************************************)
\* Mutant of Authenticated: only the user id is tested.
AuthenticatedByUserIdOnly(ctx) == ctx.userId # None

\* protectedProcedure: if (!ctx.userId || !ctx.sessionId) throw UNAUTHORIZED
Authenticated(ctx) == ctx.userId # None /\ ctx.sessionId # None

\* publicProcedure: no middleware.
Public(ctx) == TRUE

Finish(p, status, out) ==
    [req EXCEPT ![p].pc = "done", ![p].status = status, ![p].out = out]

Goto(p, pc) == [req EXCEPT ![p].pc = pc]

InFlight(op) == {q \in Procs : req[q].op = op /\ req[q].pc # "done"}

\* A call arrives at process p: the procedure's middleware runs, and the
\* handler is entered at its first statement.
Call(p, op, ctx, in, admitted, firstPc) ==
    /\ req[p] = NoRequest
    /\ req' = [req EXCEPT ![p] =
                 IF admitted
                 THEN [op |-> op, pc |-> firstPc, ctx |-> ctx, in |-> in,
                       status |-> "pending", loc |-> None, out |-> None]
                 ELSE [op |-> op, pc |-> "done", ctx |-> ctx, in |-> in,
                       status |-> "UNAUTHORIZED", loc |-> None, out |-> None]]
    /\ UNCHANGED <<outside, tables, serials, pre>>

\* The response has been sent; snap is the tables as the next call finds them.
Return(p, snap) ==
    /\ req[p].pc = "done" /\ req[p] # NoRequest
    /\ req' = [req EXCEPT ![p] = NoRequest]
    /\ pre' = snap
    /\ UNCHANGED <<outside, tables, serials>>

(***************************************************************************)
(* postRouter.create                                                       *)
(***************************************************************************)
\* The catch block of create: routers/post.ts reports every error as
\* INTERNAL_SERVER_ERROR; the other router maps the two storage codes.
CreateErrorCode(code) ==
    IF router = "post.ts" THEN "INTERNAL_SERVER_ERROR"
    ELSE IF code = ForeignKeyViolation THEN "BAD_REQUEST"
    ELSE IF code = UniqueViolation THEN "CONFLICT"
    ELSE "INTERNAL_SERVER_ERROR"

CallCreate(p, ctx, in) ==
    /\ nextPostId + Cardinality(InFlight("create")) <= MaxPosts
    /\ Call(p, "create", ctx, in, Authenticated(ctx),
            IF router = "post.ts" THEN "insertPost" ELSE "selectUser")

\* const existingUser = await db.select().from(users).where(eq(users.id, 1))
CreateSelectUser(p) ==
    /\ req[p].op = "create" /\ req[p].pc = "selectUser"
    /\ req' = IF 1 \in UserIdsStored THEN Goto(p, "insertPost")
              ELSE IF req[p].ctx.userId # None THEN Goto(p, "insertUser")
              ELSE Finish(p, "INTERNAL_SERVER_ERROR", None)
    /\ UNCHANGED <<outside, tables, serials, pre>>

\* const [created] = await db.insert(users).values({username, email}).returning()
CreateInsertUser(p) ==
    LET clerkId == req[p].ctx.userId[1]
        row == [id |-> nextUserId,
                username |-> <<"c", "l", "e", "r", "k", "_">> \o SubSeq(clerkId, 1, 8),
                email |-> clerkId \o <<"@", "c", "l", "e", "r", "k", ".", "l", "o", "c", "a", "l">>]
        err == UserRowError(row)
    IN  /\ req[p].op = "create" /\ req[p].pc = "insertUser"
        /\ IF err # "ok"
           THEN /\ req' = Finish(p, CreateErrorCode(err), None)
                /\ UNCHANGED <<users, nextUserId>>
           ELSE /\ users' = users \cup {row}
                /\ nextUserId' = nextUserId + 1
                /\ req' = [req EXCEPT ![p].pc = "insertPost", ![p].loc = Some(row.id)]
        /\ UNCHANGED <<outside, posts, categories, postCategories, nextPostId, nextCatId, clock, pre>>

\* The author written to the new post: the placeholder user 1, or the user
\* this call has just created.
DbUserId(p) == IF req[p].loc = None THEN 1 ELSE req[p].loc[1]

\* const [newPost] = await db.insert(posts).values({...}).returning()
CreateInsertPost(p) ==
    LET in == req[p].in
        row == [id |-> nextPostId, title |-> in.title, content |-> in.content,
                slug |-> generateSlug(in.title),
                published |-> in.published, authorId |-> DbUserId(p), createdAt |-> clock]
        err == PostRowError(row)
    IN  /\ req[p].op = "create" /\ req[p].pc = "insertPost"
        /\ IF err # "ok"
           THEN /\ req' = Finish(p, CreateErrorCode(err), None)
                /\ UNCHANGED <<posts, nextPostId, clock>>
           ELSE /\ posts' = StorePost(row)
                /\ nextPostId' = nextPostId + 1
                /\ clock' = clock + 1
                /\ req' = IF Len(in.categoryIds) > 0
                          THEN [req EXCEPT ![p].pc = "insertCategories", ![p].out = Some(row)]
                          ELSE Finish(p, "ok", Some(row))
        /\ UNCHANGED <<outside, users, categories, postCategories, nextUserId, nextCatId, pre>>

\* await db.insert(postCategories).values(input.categoryIds.map(...))
CreateInsertCategories(p) ==
    LET postId == req[p].out[1].id
        err == PostCategoriesError(postId, req[p].in.categoryIds)
    IN  /\ req[p].op = "create" /\ req[p].pc = "insertCategories"
        /\ IF err # "ok"
           THEN /\ req' = Finish(p, CreateErrorCode(err), None)
                /\ UNCHANGED postCategories
           ELSE /\ postCategories' = postCategories \cup PostCategoryRows(postId, req[p].in.categoryIds)
                /\ req' = Finish(p, "ok", req[p].out)
        /\ UNCHANGED <<outside, users, posts, categories, serials, pre>>

(***************************************************************************)
(* postRouter.update                                                       *)
(***************************************************************************)
CallUpdate(p, ctx, in) ==
    Call(p, "update", ctx, in, Authenticated(ctx), "updatePost")

\* updatePayload: the fields supplied, and the slug when a title is supplied.
UpdatedRow(row, in) ==
    [row EXCEPT !.title = IF in.title # None THEN in.title[1] ELSE @,
                !.content = IF in.content # None THEN in.content[1] ELSE @,
                !.slug = IF in.title # None THEN generateSlug(in.title[1]) ELSE @,
                !.published = IF in.published # None THEN in.published[1] ELSE @]

\* Mutant of UpdatePost: the handler does not test whether a row was updated.
UpdatePostUnchecked(p) ==
    LET in == req[p].in
        found == in.id \in PostIds
    IN  /\ req[p].op = "update" /\ req[p].pc = "updatePost"
        /\ IF found /\ PostRowError(UpdatedRow(posts[in.id], in)) # "ok"
           THEN /\ req' = Finish(p, "INTERNAL_SERVER_ERROR", None)
                /\ UNCHANGED posts
           ELSE /\ posts' = IF found THEN StorePost(UpdatedRow(posts[in.id], in)) ELSE posts
                /\ req' = IF in.categoryIds # None
                          THEN [req EXCEPT ![p].pc = "deleteCategories"]
                          ELSE Finish(p, "ok", None)
        /\ UNCHANGED <<outside, users, categories, postCategories, serials, pre>>

\* const [updatedPost] = await db.update(posts).set({...}).where(eq(posts.id, id)).returning()
UpdatePost(p) ==
    LET in == req[p].in
        row == UpdatedRow(posts[in.id], in)
        err == PostRowError(row)
    IN  /\ req[p].op = "update" /\ req[p].pc = "updatePost"
        /\ IF in.id \notin PostIds
           THEN /\ req' = Finish(p, "NOT_FOUND", None)
                /\ UNCHANGED posts
           ELSE IF err # "ok"
           THEN /\ req' = Finish(p, "INTERNAL_SERVER_ERROR", None)
                /\ UNCHANGED posts
           ELSE /\ posts' = StorePost(row)
                /\ req' = IF in.categoryIds # None
                          THEN [req EXCEPT ![p].pc = "deleteCategories", ![p].out = Some(row)]
                          ELSE Finish(p, "ok", Some(row))
        /\ UNCHANGED <<outside, users, categories, postCategories, serials, pre>>

\* await db.delete(postCategories).where(eq(postCategories.postId, id))
UpdateDeleteCategories(p) ==
    /\ req[p].op = "update" /\ req[p].pc = "deleteCategories"
    /\ postCategories' = DeleteCategoriesOfPost(req[p].in.id)
    /\ req' = IF Len(req[p].in.categoryIds[1]) > 0
              THEN Goto(p, "insertCategories")
              ELSE Finish(p, "ok", req[p].out)
    /\ UNCHANGED <<outside, users, posts, categories, serials, pre>>

\* await db.insert(postCategories).values(categoryIds.map(...))
UpdateInsertCategories(p) ==
    LET in == req[p].in
        err == PostCategoriesError(in.id, in.categoryIds[1])
    IN  /\ req[p].op = "update" /\ req[p].pc = "insertCategories"
        /\ IF err # "ok"
           THEN /\ req' = Finish(p, "INTERNAL_SERVER_ERROR", None)
                /\ UNCHANGED postCategories
           ELSE /\ postCategories' = postCategories \cup PostCategoryRows(in.id, in.categoryIds[1])
                /\ req' = Finish(p, "ok", req[p].out)
        /\ UNCHANGED <<outside, users, posts, categories, serials, pre>>

(***************************************************************************)
(* postRouter.delete                                                       *)
(***************************************************************************)
CallDelete(p, ctx, in) ==
    Call(p, "delete", ctx, in, Authenticated(ctx), "deletePost")

\* Mutant of DeletePost: the post row is kept (flagged, not removed).
DeletePostFlagOnly(p) ==
    LET id == req[p].in.id
    IN  /\ req[p].op = "delete" /\ req[p].pc = "deletePost"
        /\ req' = IF id \notin PostIds THEN Finish(p, "NOT_FOUND", None)
                  ELSE Finish(p, "ok", Some(posts[id]))
        /\ UNCHANGED <<outside, tables, serials, pre>>

\* const [deletedPost] = await db.delete(posts).where(eq(posts.id, input)).returning()
\* post_categories_post_fk: ON DELETE CASCADE
DeletePost(p) ==
    LET id == req[p].in.id
    IN  /\ req[p].op = "delete" /\ req[p].pc = "deletePost"
        /\ IF id \notin PostIds
           THEN /\ req' = Finish(p, "NOT_FOUND", None)
                /\ UNCHANGED <<posts, postCategories>>
           ELSE /\ posts' = [i \in PostIds \ {id} |-> posts[i]]
                /\ postCategories' = DeleteCategoriesOfPost(id)
                /\ req' = Finish(p, "ok", Some(posts[id]))
        /\ UNCHANGED <<outside, users, categories, serials, pre>>

(***************************************************************************)
(* categoryRouter.create / update / delete                                 *)
(***************************************************************************)
CallCategoryCreate(p, ctx, in) ==
    /\ nextCatId + Cardinality(InFlight("category.create")) <= MaxCats
    /\ Call(p, "category.create", ctx, in, Public(ctx), "insertCategory")

\* const [newCategory] = await db.insert(categories).values({name, slug}).returning()
CategoryInsert(p) ==
    LET name == req[p].in.name
        row == [id |-> nextCatId, name |-> name, slug |-> generateSlug(name),
                parentId |-> None]
        err == CategoryRowError(row)
    IN  /\ req[p].op = "category.create" /\ req[p].pc = "insertCategory"
        /\ IF err # "ok"
           THEN /\ req' = Finish(p, "INTERNAL_SERVER_ERROR", None)
                /\ UNCHANGED <<categories, nextCatId>>
           ELSE /\ categories' = StoreCategory(row)
                /\ nextCatId' = nextCatId + 1
                /\ req' = Finish(p, "ok", Some(row))
        /\ UNCHANGED <<outside, users, posts, postCategories, nextUserId, nextPostId, clock, pre>>

CallCategoryUpdate(p, ctx, in) ==
    Call(p, "category.update", ctx, in, Public(ctx), "updateCategory")

\* const [updatedCategory] = await db.update(categories).set({...}).where(eq(categories.id, id)).returning()
CategoryUpdate(p) ==
    LET in == req[p].in
        row == [categories[in.id] EXCEPT
                   !.name = IF in.name # None THEN in.name[1] ELSE @,
                   !.slug = IF in.name # None THEN generateSlug(in.name[1]) ELSE @,
                   !.parentId = IF in.parentId # None THEN in.parentId ELSE @]
        err == CategoryRowError(row)
    IN  /\ req[p].op = "category.update" /\ req[p].pc = "updateCategory"
        /\ IF in.id \notin CategoryIds
           THEN /\ req' = Finish(p, "NOT_FOUND", None)
                /\ UNCHANGED categories
           ELSE IF err # "ok"
           THEN /\ req' = Finish(p, "INTERNAL_SERVER_ERROR", None)
                /\ UNCHANGED categories
           ELSE /\ categories' = StoreCategory(row)
                /\ req' = Finish(p, "ok", Some(row))
        /\ UNCHANGED <<outside, users, posts, postCategories, serials, pre>>

CallCategoryDelete(p, ctx, in) ==
    Call(p, "category.delete", ctx, in, Public(ctx), "deleteCategory")

\* const [deletedCategory] = await db.delete(categories).where(eq(categories.id, input)).returning()
\* post_categories_category_fk: ON DELETE CASCADE
\* categories_parent_fk: ON DELETE SET NULL
CategoryDelete(p) ==
    LET id == req[p].in.id
    IN  /\ req[p].op = "category.delete" /\ req[p].pc = "deleteCategory"
        /\ IF id \notin CategoryIds
           THEN /\ req' = Finish(p, "NOT_FOUND", None)
                /\ UNCHANGED <<categories, postCategories>>
           ELSE /\ categories' = [i \in CategoryIds \ {id} |->
                                    IF categories[i].parentId = Some(id)
                                    THEN [categories[i] EXCEPT !.parentId = None]
                                    ELSE categories[i]]
                /\ postCategories' = {r \in postCategories : r[2] # id}
                /\ req' = Finish(p, "ok", Some(categories[id]))
        /\ UNCHANGED <<outside, users, posts, serials, pre>>

(***************************************************************************)
(* postRouter.getAll / getBySlug                                           *)
(***************************************************************************)
\* posts LEFT JOIN post_categories LEFT JOIN categories: one row per
\* (post, category) pair, and one row with a null category for a post that
\* has no category.
JoinedRows ==
    UNION {IF CategoriesOf(i) = {}
           THEN {[post |-> posts[i], categories |-> None]}
           ELSE {[post |-> posts[i], categories |-> Some(categories[c])] : c \in CategoriesOf(i)}
           : i \in PostIds}

\* The conditions getAll pushes, joined by and(...).
Conditions(row, in) ==
    /\ in.published # None => row.post.published = in.published[1]
    /\ (in.search # None /\ in.search[1] # <<>>) => TitleLike(row.post.title, in.search[1])
    /\ in.categoryId # None => (row.categories # None /\ row.categories[1].id = in.categoryId[1])

\* .orderBy(desc(posts.createdAt)): every order of the rows in which
\* createdAt never rises; rows of one post come in any order.
RECURSIVE OrderByCreatedAtDesc(_)
OrderByCreatedAtDesc(rows) ==
    IF rows = {} THEN {<<>>}
    ELSE LET first == {r \in rows : \A q \in rows : q.post.createdAt <= r.post.createdAt}
         IN  UNION {{<<r>> \o t : t \in OrderByCreatedAtDesc(rows \ {r})} : r \in first}

\* Mutant of LimitOffset: the limit is not applied.
OffsetOnly(rows, limit, offset) == SubSeq(rows, offset + 1, Len(rows))

\* .limit(input.limit).offset(input.offset)
LimitOffset(rows, limit, offset) ==
    SubSeq(rows, offset + 1, IF offset + limit < Len(rows) THEN offset + limit ELSE Len(rows))

\* Mutant of transformPostQueryResults: the category of a row is pushed only
\* when the row is the first of its post.
RECURSIVE transformPushOnFirstRow(_)
transformPushOnFirstRow(results) ==
    IF results = <<>> THEN <<>>
    ELSE LET n == Len(results)
             done == transformPushOnFirstRow(SubSeq(results, 1, n - 1))
             result == results[n]
         IN  IF \E k \in 1..Len(done) : done[k].id = result.post.id THEN done
             ELSE Append(done, [id |-> result.post.id, title |-> result.post.title,
                                content |-> result.post.content,
                                slug |-> result.post.slug,
                                published |-> result.post.published,
                                createdAt |-> result.post.createdAt,
                                authorId |-> result.post.authorId,
                                categories |-> IF result.categories # None
                                               THEN <<result.categories[1]>> ELSE <<>>])

\* postsMap after results.forEach, as the list of its values in insertion order.
RECURSIVE transformPostQueryResults(_)
transformPostQueryResults(results) ==
    IF results = <<>> THEN <<>>
    ELSE LET n == Len(results)
             done == transformPostQueryResults(SubSeq(results, 1, n - 1))
             result == results[n]
             has == \E k \in 1..Len(done) : done[k].id = result.post.id
             map == IF has THEN done
                    ELSE Append(done, [id |-> result.post.id, title |-> result.post.title,
                                       content |-> result.post.content,
                                       slug |-> result.post.slug,
                                       published |-> result.post.published,
                                       createdAt |-> result.post.createdAt,
                                       authorId |-> result.post.authorId,
                                       categories |-> <<>>])
         IN  IF result.categories # None
             THEN [k \in 1..Len(map) |->
                     IF map[k].id = result.post.id
                     THEN [map[k] EXCEPT !.categories = Append(@, result.categories[1])]
                     ELSE map[k]]
             ELSE map

\* What getAll may return for an input.
GetAllResults(in) ==
    {transformPostQueryResults(LimitOffset(rows, in.limit, in.offset)) :
        rows \in OrderByCreatedAtDesc({r \in JoinedRows : Conditions(r, in)})}

CallGetAll(p, ctx, in) ==
    Call(p, "getAll", ctx, in, Public(ctx), "select")

GetAll(p) ==
    /\ req[p].op = "getAll" /\ req[p].pc = "select"
    /\ \E out \in GetAllResults(req[p].in) : req' = Finish(p, "ok", out)
    /\ UNCHANGED <<outside, tables, serials, pre>>

\* Mutant of RowsOfSlug: the input is compared with the title.
RowsOfTitle(slug) == {r \in JoinedRows : r.post.title = slug}

\* The rows getBySlug selects: .where(eq(posts.slug, input))
RowsOfSlug(slug) == {r \in JoinedRows : r.post.slug = slug}

\* What getBySlug may return for a slug that is stored.
GetBySlugResults(slug) ==
    {transformPostQueryResults(rows)[1] : rows \in OrderByCreatedAtDesc(RowsOfSlug(slug))}

CallGetBySlug(p, ctx, in) ==
    Call(p, "getBySlug", ctx, in, Public(ctx), "select")

GetBySlug(p) ==
    /\ req[p].op = "getBySlug" /\ req[p].pc = "select"
    /\ IF RowsOfSlug(req[p].in.slug) = {}
       THEN req' = Finish(p, "NOT_FOUND", None)
       ELSE \E out \in GetBySlugResults(req[p].in.slug) : req' = Finish(p, "ok", Some(out))
    /\ UNCHANGED <<outside, tables, serials, pre>>

(***************************************************************************)
(* Inputs of the calls (after validation by the zod schemas).              *)
(***************************************************************************)
\* createPostSchema
CreateInputs ==
    [title : Titles, content : Contents, published : BOOLEAN, categoryIds : CategoryIdLists]
\* updatePostSchema
UpdateInputs ==
    [id : 1..MaxPosts, title : Opt(Titles), content : Opt(Contents),
     published : Opt(BOOLEAN), categoryIds : Opt(CategoryIdLists)]
\* idSchema
PostIdInputs == [id : 1..MaxPosts]
CategoryIdInputs == [id : 1..MaxCats]
\* createCategorySchema, updateCategorySchema
CategoryCreateInputs == [name : CategoryNames]
\* What a client may send to category.update.
CategoryUpdateRequests ==
    [id : 1..MaxCats, name : Opt(CategoryNames), parentId : Opt(1..MaxCats)]
\* Mutant of updateCategorySchema: keys the schema does not name pass through.
updateCategoryPassthrough(raw) == raw
\* updateCategorySchema is a z.object: it keeps id and name (description is
\* not modelled) and strips every other key of the request.
updateCategorySchema(raw) == [id |-> raw.id, name |-> raw.name, parentId |-> None]
CategoryUpdateInputs == {updateCategorySchema(raw) : raw \in CategoryUpdateRequests}
\* postFiltersSchema
FilterInputs ==
    [search : Opt(SearchStrings), categoryId : Opt(1..MaxCats), published : Opt(BOOLEAN),
     authorId : Opt({1, 2}), limit : 1..MaxLimit, offset : 0..MaxLimit]
\* getPostBySlugSchema
SlugInputs == [slug : {generateSlug(t) : t \in Titles}]

(***************************************************************************)
(* One statement of the request that process p serves.                     *)
(***************************************************************************)
PostStatement(p) ==
    \/ CreateSelectUser(p)
    \/ CreateInsertUser(p)
    \/ CreateInsertPost(p)
    \/ CreateInsertCategories(p)
    \/ UpdatePost(p)
    \/ UpdateDeleteCategories(p)
    \/ UpdateInsertCategories(p)
    \/ DeletePost(p)

CategoryStatement(p) ==
    \/ CategoryInsert(p)
    \/ CategoryUpdate(p)
    \/ CategoryDelete(p)

QueryStatement(p) ==
    \/ GetAll(p)
    \/ GetBySlug(p)

Idle == \A q \in Procs : req[q] = NoRequest

(***************************************************************************)
(* Spec: the mutations of both routers, one call at a time.                *)
(***************************************************************************)
NextCall ==
    /\ Idle
    /\ \E ctx \in Contexts :
        \/ \E in \in {i \in CreateInputs : ~i.published /\ i.content = Lorem} :
              CallCreate("r1", ctx, in)
        \/ \E in \in {i \in UpdateInputs : i.published = None /\ i.content = None} :
              CallUpdate("r1", ctx, in)
        \/ \E in \in PostIdInputs : CallDelete("r1", ctx, in)
        \/ \E in \in CategoryCreateInputs : CallCategoryCreate("r1", ctx, in)
        \/ \E in \in CategoryUpdateInputs : CallCategoryUpdate("r1", ctx, in)
        \/ \E in \in CategoryIdInputs : CallCategoryDelete("r1", ctx, in)

Next ==
    \/ NextCall
    \/ PostStatement("r1")
    \/ CategoryStatement("r1")
    \/ Return("r1", Snapshot)

Spec == Init /\ [][Next]_vars

(***************************************************************************)
(* Properties of the mutations (under Spec).                               *)
(***************************************************************************)
Served(p, op) == req[p].op = op /\ req[p].pc = "done"

SignedOut(ctx) == ctx.userId = None \/ ctx.sessionId = None

\* The categories of a post before the call being served.
CategoriesBefore(postId) == {r[2] : r \in {x \in pre.postCategories : x[1] = postId}}

\* The ids of the categories in a getBySlug / getAll record.
CategoryIdsShown(record) == {record.categories[k].id : k \in 1..Len(record.categories)}

\* C1: after a successful post.update with a categoryIds list, the post's
\* categories are exactly the ids of the list (no earlier category remains,
\* an empty list leaves none), and getBySlug of the post shows exactly those
\* categories, each once.
C1_UpdateReplacesCategories ==
    \A p \in Procs :
        (Served(p, "update") /\ req[p].status = "ok" /\ req[p].in.categoryIds # None) =>
            LET id == req[p].in.id
                list == req[p].in.categoryIds[1]
            IN  /\ CategoriesOf(id) = Range(list)
                /\ \A shown \in GetBySlugResults(posts[id].slug) :
                      /\ shown.id = id
                      /\ CategoryIdsShown(shown) = Range(list)
                      /\ Len(shown.categories) = Cardinality(Range(list))

\* C1 witness: a successful update has replaced a non-empty category set by
\* a non-empty list that shares no id with it.
C1_Witness ==
    \E p \in Procs :
        /\ Served(p, "update") /\ req[p].status = "ok" /\ req[p].in.categoryIds # None
        /\ req[p].in.categoryIds[1] # <<>>
        /\ CategoriesBefore(req[p].in.id) # {}
        /\ CategoriesBefore(req[p].in.id) \cap Range(req[p].in.categoryIds[1]) = {}

\* C2: category replacement in post.update is all-or-nothing: the call
\* succeeds and the post's categories are the supplied list, or it fails and
\* the post's title, slug and categories are what they were before the call.
C2_UpdateAllOrNothing ==
    \A p \in Procs :
        (Served(p, "update") /\ req[p].in.categoryIds # None) =>
            LET id == req[p].in.id
            IN  \/ /\ req[p].status = "ok"
                   /\ CategoriesOf(id) = Range(req[p].in.categoryIds[1])
                \/ /\ req[p].status # "ok"
                   /\ posts = pre.posts
                   /\ CategoriesOf(id) = CategoriesBefore(id)

\* C5: post.create with a title whose slug is the slug of a stored post fails
\* with CONFLICT and stores no post.
C5_DuplicateSlugConflict ==
    \A p \in Procs :
        (/\ Served(p, "create") /\ ~SignedOut(req[p].ctx)
         /\ \E i \in DOMAIN pre.posts : pre.posts[i].slug = generateSlug(req[p].in.title)) =>
            (req[p].status = "CONFLICT" /\ posts = pre.posts)

\* C6: post.create, post.update and post.delete called without a userId or
\* without a sessionId are rejected with UNAUTHORIZED before the handler
\* runs, and leave the users, posts and post-category tables unchanged.
C6_PostMutationsRequireAuth ==
    \A p \in Procs :
        (req[p].op \in {"create", "update", "delete"} /\ SignedOut(req[p].ctx)) =>
            /\ req[p].pc = "done"
            /\ req[p].status = "UNAUTHORIZED"
            /\ users = pre.users /\ posts = pre.posts /\ postCategories = pre.postCategories

\* C6 witness: a call that names a stored post, with a userId and no
\* sessionId, has been rejected.
C6_Witness ==
    \E p \in Procs :
        /\ req[p].op \in {"update", "delete"}
        /\ req[p].ctx.userId # None /\ req[p].ctx.sessionId = None
        /\ req[p].status = "UNAUTHORIZED"
        /\ req[p].in.id \in PostIds

\* C7: category.create, category.update and category.delete called without a
\* signed-in user are rejected, and no category row is created, changed or
\* deleted.
C7_CategoryMutationsRequireAuth ==
    \A p \in Procs :
        (/\ req[p].op \in {"category.create", "category.update", "category.delete"}
         /\ req[p].pc = "done"
         /\ SignedOut(req[p].ctx)) =>
            (req[p].status # "ok" /\ categories = pre.categories)

\* C16: every association row refers to a stored post and a stored
\* category, and no statement stores a (post, category) pair twice (a list
\* that repeats an id is refused); a deleted post leaves no association row
\* of its own, and a deleted category leaves none of its own and deletes no
\* post.
C16_AssociationsReferStoredRows ==
    /\ \A r \in postCategories : r[1] \in PostIds /\ r[2] \in CategoryIds
    /\ \A p \in Procs :
        /\ (Served(p, "update") /\ req[p].status = "ok" /\ req[p].in.categoryIds # None) =>
              Len(req[p].in.categoryIds[1]) = Cardinality(CategoriesOf(req[p].in.id))
        /\ (Served(p, "create") /\ req[p].status = "ok") =>
              Len(req[p].in.categoryIds) = Cardinality(CategoriesOf(req[p].out[1].id))
        /\ (Served(p, "delete") /\ req[p].status = "ok") =>
              /\ CategoriesOf(req[p].in.id) = {}
              /\ postCategories = {r \in pre.postCategories : r[1] # req[p].in.id}
        /\ (Served(p, "category.delete") /\ req[p].status = "ok") =>
              /\ postCategories = {r \in pre.postCategories : r[2] # req[p].in.id}
              /\ posts = pre.posts

\* C16 witness: a category that was associated with a stored post has been
\* deleted.
C16_Witness ==
    \E p \in Procs :
        /\ Served(p, "category.delete") /\ req[p].status = "ok"
        /\ \E r \in pre.postCategories : r[2] = req[p].in.id /\ r[1] \in PostIds

\* C17: post.update and post.delete with an id that no stored post has fail
\* with NOT_FOUND and leave posts and post_categories as they were.
C17_MissingPostNotFound ==
    \A p \in Procs :
        (/\ (Served(p, "update") \/ Served(p, "delete"))
         /\ ~SignedOut(req[p].ctx)
         /\ req[p].in.id \notin DOMAIN pre.posts) =>
            /\ req[p].status = "NOT_FOUND"
            /\ posts = pre.posts
            /\ postCategories = pre.postCategories

\* C17 witness: a post that had been deleted has been deleted again, with
\* another post and its category stored.
C17_Witness ==
    \E p \in Procs :
        /\ Served(p, "delete") /\ req[p].status = "NOT_FOUND"
        /\ req[p].in.id < nextPostId /\ req[p].in.id \notin PostIds
        /\ postCategories # {}

\* C19: post.create, when the author row the new post refers to is not
\* stored (and the slug is free), fails with an error other than the generic
\* INTERNAL_SERVER_ERROR, and stores no post.
C19_MissingAuthorReported ==
    \A p \in Procs :
        (/\ Served(p, "create") /\ ~SignedOut(req[p].ctx)
         /\ DbUserId(p) \notin UserIdsStored
         /\ \A i \in DOMAIN pre.posts : pre.posts[i].slug # generateSlug(req[p].in.title)) =>
            /\ req[p].status \notin {"ok", "INTERNAL_SERVER_ERROR"}
            /\ posts = pre.posts

\* C23: whenever post.create returns an error, posts and post_categories
\* are as they were before the call (no post is left stored without the
\* categories requested for it).
C23_CreateAtomicOnFailure ==
    \A p \in Procs :
        (Served(p, "create") /\ req[p].status # "ok") =>
            (posts = pre.posts /\ postCategories = pre.postCategories)

(***************************************************************************)
(* SpecQuery: getAll and getBySlug over the stores that create and         *)
(* category.create build, one call at a time.                              *)
(***************************************************************************)
NextQuery ==
    \/ Idle /\ \E in \in {i \in CreateInputs : i.content = Lorem} : CallCreate("r1", SignedIn, in)
    \/ Idle /\ \E in \in CategoryCreateInputs : CallCategoryCreate("r1", SignedIn, in)
    \/ Idle /\ \E in \in FilterInputs : CallGetAll("r1", Visitor, in)
    \/ Idle /\ \E in \in SlugInputs : CallGetBySlug("r1", Visitor, in)
    \/ CreateSelectUser("r1")
    \/ CreateInsertUser("r1")
    \/ CreateInsertPost("r1")
    \/ CreateInsertCategories("r1")
    \/ CategoryInsert("r1")
    \/ GetAll("r1")
    \/ GetBySlug("r1")
    \/ Return("r1", Snapshot)

SpecQuery == Init /\ [][NextQuery]_vars

(***************************************************************************)
(* Properties of getAll (under SpecQuery).                                 *)
(***************************************************************************)
\* The ids of the posts in a getAll result, in the order returned.
IdsReturned(out) == [k \in 1..Len(out) |-> out[k].id]

\* The posts that have a joined row passing the conditions of the query.
MatchingPosts(in) == {r.post.id : r \in {x \in JoinedRows : Conditions(x, in)}}

\* A set of stored posts by creation time, latest first.
RECURSIVE LatestFirst(_)
LatestFirst(ids) ==
    IF ids = {} THEN <<>>
    ELSE LET i == CHOOSE a \in ids : \A b \in ids : posts[b].createdAt <= posts[a].createdAt
         IN  <<i>> \o LatestFirst(ids \ {i})

\* C8: getAll never returns more distinct posts than the requested limit.
C8_AtMostLimitPosts ==
    \A p \in Procs :
        Served(p, "getAll") => Cardinality(Range(IdsReturned(req[p].out))) <= req[p].in.limit

\* C8 witness: getAll with limit 1 over two stored posts has returned one post.
C8_Witness ==
    \E p \in Procs :
        /\ Served(p, "getAll") /\ req[p].in.limit = 1
        /\ Cardinality(MatchingPosts(req[p].in)) = 2
        /\ Len(req[p].out) = 1

\* C9: getAll with limit l and offset o returns the posts ranked o+1..o+l
\* (or through the last one) among the matching posts, latest first,
\* whatever number of categories each post has.
C9_PageOfPosts ==
    \A p \in Procs :
        Served(p, "getAll") =>
            LET ranked == LatestFirst(MatchingPosts(req[p].in))
                from == req[p].in.offset + 1
                to == IF req[p].in.offset + req[p].in.limit < Len(ranked)
                      THEN req[p].in.offset + req[p].in.limit ELSE Len(ranked)
            IN  IdsReturned(req[p].out) = SubSeq(ranked, from, to)

\* The filters of the claim, as the claim reads them.
SatisfiesFilters(id, in) ==
    /\ in.published # None => posts[id].published = in.published[1]
    /\ in.search # None => Contains(posts[id].title, in.search[1])
    /\ in.categoryId # None => in.categoryId[1] \in CategoriesOf(id)

\* C10: every post getAll returns satisfies all supplied filters (published
\* flag, title contains the search string, associated with the category),
\* and a filter that is not supplied excludes no post: a page that is large
\* enough holds every post that satisfies the supplied filters.
C10_FiltersCombined ==
    \A p \in Procs :
        Served(p, "getAll") =>
            /\ \A k \in 1..Len(req[p].out) : SatisfiesFilters(req[p].out[k].id, req[p].in)
            /\ (req[p].in.offset = 0 /\ req[p].in.limit >= Cardinality(JoinedRows)) =>
                  \A i \in PostIds :
                      SatisfiesFilters(i, req[p].in) => i \in Range(IdsReturned(req[p].out))

\* C11: when an authorId is supplied to getAll, every post returned has
\* that authorId (posts of other authors are excluded).
C11_AuthorFilterApplied ==
    \A p \in Procs :
        (Served(p, "getAll") /\ req[p].in.authorId # None) =>
            \A k \in 1..Len(req[p].out) : req[p].out[k].authorId = req[p].in.authorId[1]

\* C12: getBySlug of the slug of a stored post with n categories returns one
\* record, of that post, whose categories list has n entries: one per
\* associated category, none twice.
C12_OneEntryPerCategory ==
    \A p \in Procs :
        Served(p, "getBySlug") =>
            \A i \in PostIds :
                posts[i].slug = req[p].in.slug =>
                    /\ req[p].status = "ok"
                    /\ req[p].out[1].id = i
                    /\ Len(req[p].out[1].categories) = Cardinality(CategoriesOf(i))
                    /\ CategoryIdsShown(req[p].out[1]) = CategoriesOf(i)
                    /\ \A k \in 1..Len(req[p].out[1].categories) :
                          req[p].out[1].categories[k] = categories[req[p].out[1].categories[k].id]

\* C12 witness: getBySlug has returned, with two category entries, a post
\* that has two categories.
C12_Witness ==
    \E p \in Procs :
        /\ Served(p, "getBySlug") /\ req[p].status = "ok"
        /\ Cardinality(CategoriesOf(req[p].out[1].id)) = 2
        /\ Len(req[p].out[1].categories) = 2

(***************************************************************************)
(* Two requests in flight, their statements interleaved in any order.      *)
(***************************************************************************)
ConcurrentCreateInputs ==
    {i \in CreateInputs : ~i.published /\ i.content = Lorem /\ i.categoryIds = <<>>}
\* Updates of the title.
TitleUpdateInputs ==
    {i \in UpdateInputs :
        i.published = None /\ i.content = None /\ i.title # None /\ i.categoryIds = None}
\* Updates of the category list (lists without a repeated id).
CategoryListUpdateInputs ==
    {i \in UpdateInputs :
        /\ i.published = None /\ i.content = None /\ i.title = None /\ i.categoryIds # None
        /\ \A a, b \in 1..Len(i.categoryIds[1]) : a # b => i.categoryIds[1][a] # i.categoryIds[1][b]}

\* SpecConcurrent: post.create, post.update (of the title) and post.delete.
NextConcurrent ==
    \E p \in Procs :
        \/ \E ctx \in SignedInContexts, in \in ConcurrentCreateInputs : CallCreate(p, ctx, in)
        \/ \E in \in TitleUpdateInputs : CallUpdate(p, SignedIn, in)
        \/ \E in \in PostIdInputs : CallDelete(p, SignedIn, in)
        \/ CreateSelectUser(p)
        \/ CreateInsertUser(p)
        \/ CreateInsertPost(p)
        \/ UpdatePost(p)
        \/ DeletePost(p)
        \/ Return(p, pre)

SpecConcurrent == Init /\ [][NextConcurrent]_vars

\* SpecRace: post.update of the category list, over the posts and
\* categories that post.create and category.create store.  The store holds
\* the placeholder user, so that create never has to insert a user.
InitRace == Init /\ users = {SeedUser}

NextRace ==
    \E p \in Procs :
        \/ \E in \in {i \in ConcurrentCreateInputs : i.title = World} : CallCreate(p, SignedIn, in)
        \/ \E in \in CategoryListUpdateInputs : CallUpdate(p, SignedIn, in)
        \/ \E in \in CategoryCreateInputs : CallCategoryCreate(p, SignedIn, in)
        \/ CreateSelectUser(p)
        \/ CreateInsertPost(p)
        \/ UpdatePost(p)
        \/ UpdateDeleteCategories(p)
        \/ UpdateInsertCategories(p)
        \/ CategoryInsert(p)
        \/ Return(p, pre)

SpecRace == InitRace /\ [][NextRace]_vars

(***************************************************************************)
(* Properties under SpecRace (C3) and SpecConcurrent (C4).                  *)
(***************************************************************************)
\* C3: when two post.update calls for the same post, with category lists A
\* and B, have both finished, the post's category set is A or is B.
C3_LastWriteWins ==
    \A p, q \in Procs :
        (/\ p # q
         /\ Served(p, "update") /\ Served(q, "update")
         /\ req[p].status = "ok" /\ req[q].status = "ok"
         /\ req[p].in.id = req[q].in.id
         /\ req[p].in.categoryIds # None /\ req[q].in.categoryIds # None) =>
            CategoriesOf(req[p].in.id) \in
                {Range(req[p].in.categoryIds[1]), Range(req[q].in.categoryIds[1])}

\* C4: no two stored posts have the same slug.
C4_SlugUnique ==
    \A i, j \in PostIds : posts[i].slug = posts[j].slug => i = j

\* C4 witness: an update whose new title has the slug of another stored post
\* has failed, and two posts are stored.
C4_Witness ==
    \E p \in Procs :
        /\ Served(p, "update") /\ req[p].status = "INTERNAL_SERVER_ERROR"
        /\ req[p].in.title # None
        /\ req[p].in.id \in PostIds
        /\ \E j \in PostIds : j # req[p].in.id /\ posts[j].slug = generateSlug(req[p].in.title[1])

(***************************************************************************)
(* SpecTransform: transformPostQueryResults applied to flat lists of       *)
(* joined rows, whatever query they come from.                             *)
(***************************************************************************)
\* The lists have at most MaxRows rows.
MaxRows == 3

\* RawPostQueryResult: rows of two posts, each with a null category or one
\* of two categories.
RawPosts ==
    {[id |-> 1, title |-> Hello, content |-> Lorem, slug |-> generateSlug(Hello),
      published |-> TRUE, authorId |-> 1, createdAt |-> 1],
     [id |-> 2, title |-> World, content |-> Ipsum, slug |-> generateSlug(World),
      published |-> FALSE, authorId |-> 1, createdAt |-> 2]}
RawCategories ==
    {[id |-> 1, name |-> Art, slug |-> generateSlug(Art), parentId |-> None],
     [id |-> 2, name |-> Tech, slug |-> generateSlug(Tech), parentId |-> None]}
RawPostQueryResult == [post : RawPosts, categories : Opt(RawCategories)]

RawResultLists == UNION {[1..n -> RawPostQueryResult] : n \in 0..MaxRows}

InitTransform ==
    /\ router \in Routers
    /\ InitOutside
    /\ users = {SeedUser} /\ nextUserId = 2
    /\ posts = <<>> /\ categories = <<>> /\ postCategories = {}
    /\ nextPostId = 1 /\ nextCatId = 1 /\ clock = 1
    /\ \E results \in RawResultLists :
          req = [p \in Procs |->
                   IF p = "r1"
                   THEN [op |-> "transform", pc |-> "forEach", ctx |-> Visitor,
                         in |-> [results |-> results], status |-> "pending",
                         loc |-> None, out |-> None]
                   ELSE NoRequest]
    /\ pre = Snapshot

\* return Array.from(postsMap.values())
Transform(p) ==
    /\ req[p].op = "transform" /\ req[p].pc = "forEach"
    /\ req' = Finish(p, "ok", transformPostQueryResults(req[p].in.results))
    /\ UNCHANGED <<outside, tables, serials, pre>>

NextTransform == Transform("r1")

SpecTransform == InitTransform /\ [][NextTransform]_vars

\* The distinct elements of a list, in order of first appearance.
RECURSIVE Distinct(_)
Distinct(s) ==
    IF s = <<>> THEN <<>>
    ELSE LET d == Distinct(SubSeq(s, 1, Len(s) - 1))
         IN  IF s[Len(s)] \in Range(d) THEN d ELSE Append(d, s[Len(s)])

\* The ids of the non-null categories joined to a post, row by row.
RECURSIVE CategoryIdsJoined(_, _)
CategoryIdsJoined(results, id) ==
    IF results = <<>> THEN <<>>
    ELSE LET r == Head(results)
         IN  (IF r.post.id = id /\ r.categories # None THEN <<r.categories[1].id>> ELSE <<>>)
                 \o CategoryIdsJoined(Tail(results), id)

\* C13: transformPostQueryResults returns one record per distinct post id,
\* in order of first appearance, and the categories of each record are the
\* non-null category ids joined to the post, each once, in order of first
\* appearance (also when a post/category pair occurs in several rows).
C13_TransformDeduplicates ==
    \A p \in Procs :
        Served(p, "transform") =>
            LET results == req[p].in.results
                out == req[p].out
            IN  /\ IdsReturned(out) = Distinct([k \in 1..Len(results) |-> results[k].post.id])
                /\ \A k \in 1..Len(out) :
                      [j \in 1..Len(out[k].categories) |-> out[k].categories[j].id]
                          = Distinct(CategoryIdsJoined(results, out[k].id))

(***************************************************************************)
(* SpecFetch: a query after each mutation.  Process r1 serves post.create  *)
(* and post.delete; process r2 serves getBySlug and getAll between two     *)
(* calls of r1, so that a finished query of r2 has read the store that the *)
(* last call of r1 left.                                                   *)
(***************************************************************************)
FetchCreateInputs == {i \in CreateInputs : ~i.published /\ i.categoryIds = <<>>}
UnfilteredInputs ==
    {i \in FilterInputs :
        i.search = None /\ i.categoryId = None /\ i.published = None /\ i.authorId = None}

NextFetch ==
    \/ /\ req["r2"] = NoRequest
       /\ \/ \E ctx \in SignedInContexts, in \in FetchCreateInputs : CallCreate("r1", ctx, in)
          \/ \E in \in PostIdInputs : CallDelete("r1", SignedIn, in)
          \/ Return("r1", Snapshot)
    \/ CreateSelectUser("r1")
    \/ CreateInsertUser("r1")
    \/ CreateInsertPost("r1")
    \/ DeletePost("r1")
    \/ /\ req["r1"].pc = "done"
       /\ \/ \E in \in SlugInputs : CallGetBySlug("r2", Visitor, in)
          \/ \E in \in UnfilteredInputs : CallGetAll("r2", Visitor, in)
    \/ GetBySlug("r2")
    \/ GetAll("r2")
    \/ Return("r2", pre)

SpecFetch == Init /\ [][NextFetch]_vars

\* C14: after a successful post.create with title t, content c and no
\* category ids, the returned slug is the slug of t, and getBySlug of that
\* slug returns a post with title t, content c and no categories.
C14_CreateThenFetch ==
    (/\ Served("r1", "create") /\ req["r1"].status = "ok"
     /\ req["r1"].in.categoryIds = <<>>) =>
        /\ req["r1"].out[1].slug = generateSlug(req["r1"].in.title)
        /\ (Served("r2", "getBySlug") /\ req["r2"].in.slug = req["r1"].out[1].slug) =>
              /\ req["r2"].status = "ok"
              /\ req["r2"].out[1].title = req["r1"].in.title
              /\ req["r2"].out[1].content = req["r1"].in.content
              /\ req["r2"].out[1].categories = <<>>

\* C14 witness: the second of two stored posts, which differ in title and
\* content, has been created and then fetched by its slug.
C14_Witness ==
    /\ Served("r1", "create") /\ req["r1"].status = "ok"
    /\ Served("r2", "getBySlug") /\ req["r2"].in.slug = req["r1"].out[1].slug
    /\ req["r1"].out[1].slug # req["r1"].in.title
    /\ \E i \in PostIds : posts[i].title # req["r1"].in.title /\ posts[i].content # req["r1"].in.content

\* The posts that have been stored and deleted (ids are never reused).
DeletedPosts == (1..(nextPostId - 1)) \ PostIds

MaxText == 4

SlugAlphabet == {"a", "Z", "7", " ", "-", "!"}
HelloWorldBangs == <<"H", "e", "l", "l", "o", " ", "W", "o", "r", "l", "d", "!", "!">>
TechAndScience == <<"T", "e", "c", "h", " ", "&", " ", "S", "c", "i", "e", "n", "c", "e">>
Texts ==
    UNION {[1..n -> SlugAlphabet] : n \in 0..MaxText} \cup {HelloWorldBangs, TechAndScience}

InitSlug ==
    /\ router \in Routers
    /\ InitOutside
    /\ users = {SeedUser} /\ nextUserId = 2
    /\ posts = <<>> /\ categories = <<>> /\ postCategories = {}
    /\ nextPostId = 1 /\ nextCatId = 1 /\ clock = 1
    /\ \E text \in Texts :
          req = [p \in Procs |->
                   IF p = "r1"
                   THEN [op |-> "generateSlug", pc |-> "replace", ctx |-> SignedIn,
                         in |-> [text |-> text], status |-> "pending",
                         loc |-> None, out |-> None]
                   ELSE NoRequest]
    /\ pre = Snapshot

\* const slug = generateSlug(input.title)
GenerateSlug(p) ==
    /\ req[p].op = "generateSlug" /\ req[p].pc = "replace"
    /\ req' = Finish(p, "ok", generateSlug(req[p].in.text))
    /\ UNCHANGED <<outside, tables, serials, pre>>

NextSlug == GenerateSlug("r1")

SpecSlug == InitSlug /\ [][NextSlug]_vars

\* The maximal runs of a-z and 0-9 in a text, in order; word is the run
\* being read.
RECURSIVE SlugWords(_, _)
SlugWords(text, word) ==
    LET ended == IF word = <<>> THEN <<>> ELSE <<word>>
    IN  IF text = <<>> THEN ended
        ELSE IF IsSlugChar(Head(text)) THEN SlugWords(Tail(text), Append(word, Head(text)))
        ELSE ended \o SlugWords(Tail(text), <<>>)

RECURSIVE JoinWithHyphens(_)
JoinWithHyphens(words) ==
    IF words = <<>> THEN <<>>
    ELSE IF Len(words) = 1 THEN words[1]
    ELSE words[1] \o <<"-">> \o JoinWithHyphens(Tail(words))

\* C18: generateSlug(text) is the lowercased text with each maximal run of
\* characters outside a-z and 0-9 replaced by one hyphen and the hyphens at
\* the two ends removed: only a-z, 0-9 and hyphens, no hyphen first or last,
\* no two hyphens in a row; "Hello World!!" gives hello-world and
\* "Tech & Science" gives tech-science.
C18_SlugFormat ==
    \A p \in Procs :
        Served(p, "generateSlug") =>
            LET text == req[p].in.text
                slug == req[p].out
            IN  /\ slug = JoinWithHyphens(SlugWords(toLowerCase(text), <<>>))
                /\ \A k \in 1..Len(slug) : IsSlugChar(slug[k]) \/ slug[k] = "-"
                /\ slug # <<>> => (slug[1] # "-" /\ slug[Len(slug)] # "-")
                /\ \A k \in 1..(Len(slug) - 1) : ~(slug[k] = "-" /\ slug[k + 1] = "-")
                /\ text = HelloWorldBangs =>
                      slug = <<"h", "e", "l", "l", "o", "-", "w", "o", "r", "l", "d">>
                /\ text = TechAndScience =>
                      slug = <<"t", "e", "c", "h", "-", "s", "c", "i", "e", "n", "c", "e">>

\* C18 witness: a text with hyphens, blanks and other characters at both
\* ends and an upper-case letter has been turned into a slug.
C18_Witness ==
    \E p \in Procs :
        /\ Served(p, "generateSlug")
        /\ req[p].in.text = <<" ", "-", "Z", "!">>
        /\ req[p].out = <<"z">>

\* C20: the author of a new post is determined by the caller's userId: posts
\* created by two different signed-in users have different authors.
C20_AuthorIsCaller ==
    \A p, q \in Procs :
        (/\ Served(p, "create") /\ req[p].status = "ok"
         /\ Served(q, "create") /\ req[q].status = "ok"
         /\ req[p].ctx.userId # req[q].ctx.userId) =>
            req[p].out[1].authorId # req[q].out[1].authorId

(***************************************************************************)
(* SpecCategory: category.create, category.update and category.delete,     *)
(* two requests in flight.                                                 *)
(***************************************************************************)
NextCategory ==
    \E p \in Procs :
        \/ \E in \in CategoryCreateInputs : CallCategoryCreate(p, Visitor, in)
        \/ \E in \in CategoryUpdateInputs : CallCategoryUpdate(p, Visitor, in)
        \/ \E in \in CategoryIdInputs : CallCategoryDelete(p, Visitor, in)
        \/ CategoryInsert(p)
        \/ CategoryUpdate(p)
        \/ CategoryDelete(p)
        \/ Return(p, Snapshot)

SpecCategory == Init /\ [][NextCategory]_vars

\* Following parentId from category c reaches a category without parent in
\* at most steps steps.
RECURSIVE ReachesRoot(_, _)
ReachesRoot(c, steps) ==
    IF categories[c].parentId = None THEN TRUE
    ELSE IF steps = 0 THEN FALSE
    ELSE /\ categories[c].parentId[1] \in CategoryIds
         /\ ReachesRoot(categories[c].parentId[1], steps - 1)

\* C21: no category's parent chain contains a cycle: following parentId from
\* any category reaches a category without parent.
C21_ParentChainsAcyclic ==
    \A c \in CategoryIds : ReachesRoot(c, Cardinality(CategoryIds))

\* C21 witness: with two categories stored, an update has renamed one of
\* them.
C21_Witness ==
    \E p \in Procs :
        /\ Served(p, "category.update") /\ req[p].status = "ok"
        /\ req[p].in.name # None
        /\ Cardinality(CategoryIds) = 2

(***************************************************************************)
(* SpecTwice: every post.update that process r1 has served is issued once  *)
(* more, unchanged, on process r2 before any other call.                   *)
(***************************************************************************)
RepeatUpdateInputs ==
    {i \in UpdateInputs :
        /\ i.published = None /\ i.content = None /\ i.categoryIds # None
        /\ i.title \in {None, Some(Hello)}}

NextTwice ==
    \/ /\ req["r2"] = NoRequest
       /\ \/ \E in \in {i \in ConcurrentCreateInputs : i.title = World} :
                CallCreate("r1", SignedIn, in)
          \/ \E in \in CategoryCreateInputs : CallCategoryCreate("r1", SignedIn, in)
          \/ \E in \in RepeatUpdateInputs : CallUpdate("r1", SignedIn, in)
    \/ CreateSelectUser("r1")
    \/ CreateInsertPost("r1")
    \/ CategoryInsert("r1")
    \/ UpdatePost("r1")
    \/ UpdateDeleteCategories("r1")
    \/ UpdateInsertCategories("r1")
    \/ Served("r1", "update") /\ CallUpdate("r2", req["r1"].ctx, req["r1"].in)
    \/ Return("r1", Snapshot)
    \/ /\ req["r1"] = NoRequest
       /\ \/ UpdatePost("r2")
          \/ UpdateDeleteCategories("r2")
          \/ UpdateInsertCategories("r2")
    \/ req["r1"] = NoRequest /\ Return("r2", Snapshot)

SpecTwice == InitRace /\ [][NextTwice]_vars

\* C22: the same post.update with the same categoryIds list, issued a second
\* time right after the first, leaves post_categories as the first left it.
C22_UpdateIdempotent ==
    (Served("r2", "update") /\ req["r1"] = NoRequest) =>
        postCategories = pre.postCategories

\* C22 witness: an update with a list of two categories has succeeded a
\* second time, on a store where another post has a category.
C22_Witness ==
    /\ Served("r2", "update") /\ req["r1"] = NoRequest
    /\ req["r2"].status = "ok"
    /\ Len(req["r2"].in.categoryIds[1]) = 2
    /\ \E r \in postCategories : r[1] # req["r2"].in.id

(***************************************************************************)
(* SpecTitle: post.create and post.update with the titles that titleSchema *)
(* accepts.                                                                *)
(***************************************************************************)
TitleSchemaMin == 1
TitleSchemaMax == 255

\* titleSchema: z.string().min(1).max(255)
titleSchema(title) == Len(title) >= TitleSchemaMin /\ Len(title) <= TitleSchemaMax

\* Titles a client may send: empty, short, of punctuation only, over the
\* schema's maximum.
TitleSamples ==
    {<<>>, <<"H", "i">>, <<"a", "b", "c", "d">>, <<"a", " ", "b", " ", "c">>,
     <<"!", "!", "!", "!", "!">>, Hello, World,
     [k \in 1..(TitleSchemaMax + 1) |-> "a"]}

ValidatedTitles == {t \in TitleSamples : titleSchema(t)}

NextTitle ==
    \/ /\ Idle
       /\ \/ \E t \in ValidatedTitles :
                CallCreate("r1", SignedIn,
                           [title |-> t, content |-> Lorem, published |-> FALSE,
                            categoryIds |-> <<>>])
          \/ \E id \in 1..MaxPosts, t \in ValidatedTitles :
                CallUpdate("r1", SignedIn,
                           [id |-> id, title |-> Some(t), content |-> None,
                            published |-> None, categoryIds |-> None])
    \/ CreateSelectUser("r1")
    \/ CreateInsertUser("r1")
    \/ CreateInsertPost("r1")
    \/ UpdatePost("r1")
    \/ Return("r1", Snapshot)

SpecTitle == Init /\ [][NextTitle]_vars

\* C24: a post.create or post.update with a title that the schema accepts,
\* a slug no other post has and a stored author (for update: a stored post)
\* does not fail: every accepted title gives a row that storage accepts.
C24_ValidatedTitleIsStorable ==
    \A p \in Procs :
        /\ (/\ Served(p, "create")
            /\ DbUserId(p) \in UserIdsStored
            /\ \A i \in DOMAIN pre.posts : pre.posts[i].slug # generateSlug(req[p].in.title)) =>
               req[p].status = "ok"
        /\ (/\ Served(p, "update")
            /\ req[p].in.id \in DOMAIN pre.posts
            /\ \A i \in DOMAIN pre.posts :
                  i # req[p].in.id => pre.posts[i].slug # generateSlug(req[p].in.title[1])) =>
               req[p].status = "ok"

(***************************************************************************)
(* tagRouter: the tags table, tag.create, tag.update, tag.getPopular, and  *)
(* the maintenance job that refreshes usage_count.                         *)
(***************************************************************************)
\* tags.id is a serial: at most MaxTags tag rows are ever inserted.
MaxTags == 2
\* usage_count is refreshed to a count in 1..MaxUsage.
MaxUsage == 2

TagNameMinLength == 2

\* Tag names (after the schema's trim); "go" and "Go" have the same slug.
TagNames == {<<"g", "o">>, <<"G", "o">>, <<"j", "s">>}

TagIds == DOMAIN tags

RECURSIVE StripLeadingHyphens(_)
StripLeadingHyphens(text) ==
    IF text # <<>> /\ Head(text) = "-" THEN StripLeadingHyphens(Tail(text)) ELSE text

RECURSIVE StripTrailingHyphens(_)
StripTrailingHyphens(text) ==
    IF text # <<>> /\ text[Len(text)] = "-"
    THEN StripTrailingHyphens(SubSeq(text, 1, Len(text) - 1))
    ELSE text

\* input.name.toLowerCase().replace(/[^a-z0-9]+/g, '-').replace(/^-+|-+$/g, '')
TagSlug(name) ==
    StripTrailingHyphens(StripLeadingHyphens(ReplaceRuns(toLowerCase(name), FALSE)))

\* tags: tag_name_min_length, tags_name_idx, tags_slug_idx
TagRowError(row) ==
    IF Len(row.name) < TagNameMinLength THEN CheckViolation
    ELSE IF \E i \in TagIds : i # row.id /\ (tags[i].name = row.name \/ tags[i].slug = row.slug)
    THEN UniqueViolation
    ELSE "ok"

StoreTag(row) == [i \in TagIds \cup {row.id} |-> IF i = row.id THEN row ELSE tags[i]]

\* What the handlers of the tag router leave alone.
untagged == <<router, tables, serials, filterStore, retryButton>>

CallTagCreate(p, ctx, in) ==
    /\ nextTagId + Cardinality(InFlight("tag.create")) <= MaxTags
    /\ Call(p, "tag.create", ctx, in, Authenticated(ctx), "selectName")

\* const existing = await db.select().from(tags).where(eq(tags.name, input.name)).limit(1)
TagCreateSelectName(p) ==
    /\ req[p].op = "tag.create" /\ req[p].pc = "selectName"
    /\ req' = IF \E i \in TagIds : tags[i].name = req[p].in.name
              THEN Finish(p, "CONFLICT", None)
              ELSE Goto(p, "selectSlug")
    /\ UNCHANGED <<untagged, pre, tags, nextTagId>>

\* const existingSlug = await db.select().from(tags).where(eq(tags.slug, slug)).limit(1)
TagCreateSelectSlug(p) ==
    /\ req[p].op = "tag.create" /\ req[p].pc = "selectSlug"
    /\ req' = IF \E i \in TagIds : tags[i].slug = TagSlug(req[p].in.name)
              THEN Finish(p, "CONFLICT", None)
              ELSE Goto(p, "insertTag")
    /\ UNCHANGED <<untagged, pre, tags, nextTagId>>

\* const [newTag] = await db.insert(tags).values({name, slug, ..., usageCount: 0}).returning()
TagCreateInsert(p) ==
    LET row == [id |-> nextTagId, name |-> req[p].in.name,
                slug |-> TagSlug(req[p].in.name), usageCount |-> 0]
        err == TagRowError(row)
    IN  /\ req[p].op = "tag.create" /\ req[p].pc = "insertTag"
        /\ IF err # "ok"
           THEN /\ req' = Finish(p, "INTERNAL_SERVER_ERROR", None)
                /\ UNCHANGED <<tags, nextTagId>>
           ELSE /\ tags' = StoreTag(row)
                /\ nextTagId' = nextTagId + 1
                /\ req' = Finish(p, "ok", Some(row))
        /\ UNCHANGED <<untagged, pre>>

CallTagUpdate(p, ctx, in) == Call(p, "tag.update", ctx, in, Authenticated(ctx), "selectTag")

\* const existing = await db.select().from(tags).where(eq(tags.id, id)).limit(1)
\* loc keeps existing[0] and the slug added to payloadToUpdate, if any.
TagUpdateSelect(p) ==
    LET in == req[p].in
    IN  /\ req[p].op = "tag.update" /\ req[p].pc = "selectTag"
        /\ req' = IF in.id \notin TagIds
                  THEN Finish(p, "NOT_FOUND", None)
                  ELSE [req EXCEPT ![p].loc = Some([existing |-> tags[in.id], slug |-> None]),
                                   ![p].pc = IF in.name # None /\ in.name[1] # tags[in.id].name
                                             THEN "nameConflict"
                                             ELSE "updateTag"]
        /\ UNCHANGED <<untagged, pre, tags, nextTagId>>

\* The name test without the id condition.
NameTakenByAny(id, name) == \E i \in TagIds : tags[i].name = name

\* .where(and(eq(tags.name, updateData.name), eq(tags.id, id)))
NameConflictRows(id, name) == {i \in TagIds : tags[i].name = name /\ i = id}

TagUpdateNameConflict(p) ==
    LET in == req[p].in
    IN  /\ req[p].op = "tag.update" /\ req[p].pc = "nameConflict"
        /\ req' = IF NameConflictRows(in.id, in.name[1]) # {}
                  THEN Finish(p, "CONFLICT", None)
                  ELSE [req EXCEPT ![p].loc = Some([req[p].loc[1] EXCEPT
                                                      !.slug = Some(TagSlug(in.name[1]))]),
                                   ![p].pc = "updateTag"]
        /\ UNCHANGED <<untagged, pre, tags, nextTagId>>

\* const [updatedTag] = await db.update(tags).set(payloadToUpdate).where(eq(tags.id, id)).returning()
TagUpdate(p) ==
    LET in  == req[p].in
        loc == req[p].loc[1]
        row == [tags[in.id] EXCEPT
                  !.name = IF in.name # None THEN in.name[1] ELSE @,
                  !.slug = IF loc.slug # None THEN loc.slug[1] ELSE @]
    IN  /\ req[p].op = "tag.update" /\ req[p].pc = "updateTag"
        /\ IF in.id \notin TagIds \/ TagRowError(row) # "ok"
           THEN /\ req' = Finish(p, "INTERNAL_SERVER_ERROR", None)
                /\ UNCHANGED tags
           ELSE /\ tags' = StoreTag(row)
                /\ req' = Finish(p, "ok", Some(row))
        /\ UNCHANGED <<untagged, pre, nextTagId>>

\* The orders ORDER BY usage_count DESC may give to a set of rows.
OrderByUsageCountDesc(rows) ==
    {s \in [1..Cardinality(rows) -> rows] :
        /\ \A i, j \in DOMAIN s : i # j => s[i] # s[j]
        /\ \A i, j \in DOMAIN s : i < j => s[i].usageCount >= s[j].usageCount}

\* .from(tags).where(eq(tags.usageCount, 0)).orderBy(desc(tags.usageCount)).limit(input.limit)
GetPopularResults(limit) ==
    LET rows == {tags[i] : i \in {j \in TagIds : tags[j].usageCount = 0}}
    IN  {SubSeq(s, 1, IF limit < Len(s) THEN limit ELSE Len(s)) : s \in OrderByUsageCountDesc(rows)}

CallTagGetPopular(p, ctx, in) == Call(p, "tag.getPopular", ctx, in, Public(ctx), "query")

TagGetPopular(p) ==
    /\ req[p].op = "tag.getPopular" /\ req[p].pc = "query"
    /\ \E result \in GetPopularResults(req[p].in.limit) : req' = Finish(p, "ok", Some(result))
    /\ UNCHANGED <<untagged, pre, tags, nextTagId>>

\* MaintenanceQueries.updateTagUsageCounts: tagStats holds one row per tag
\* that post_tags mentions, with the number of its post_tags rows; no handler
\* of the repository writes post_tags, so tagStats is an input.
updateTagUsageCounts ==
    /\ \A p \in Procs : req[p] = NoRequest
    /\ \E mentioned \in SUBSET TagIds :
         /\ mentioned # {}
         /\ \E tagStats \in [mentioned -> 1..MaxUsage] :
              tags' = [i \in TagIds |->
                         IF i \in mentioned THEN [tags[i] EXCEPT !.usageCount = tagStats[i]]
                         ELSE tags[i]]
    /\ pre' = [users |-> users, posts |-> posts, categories |-> categories,
               postCategories |-> postCategories, tags |-> tags']
    /\ UNCHANGED <<untagged, nextTagId, req>>

TagCreateInputs == [name : TagNames]
TagUpdateInputs == [id : 1..MaxTags, name : Opt(TagNames)]
GetPopularInputs == [limit : 1..MaxLimit]

\* The tables, tags included, as the next call of the tag router finds them.
TagSnapshot == [users |-> users, posts |-> posts, categories |-> categories,
                postCategories |-> postCategories, tags |-> tags]

\* One caller at a time: tag.create, tag.update, tag.getPopular and the
\* maintenance job.
NextTag ==
    \/ /\ Idle
       /\ \/ \E in \in TagCreateInputs : CallTagCreate("r1", SignedIn, in)
          \/ \E in \in TagUpdateInputs : CallTagUpdate("r1", SignedIn, in)
          \/ \E in \in GetPopularInputs : CallTagGetPopular("r1", Visitor, in)
    \/ TagCreateSelectName("r1") \/ TagCreateSelectSlug("r1") \/ TagCreateInsert("r1")
    \/ TagUpdateSelect("r1") \/ TagUpdateNameConflict("r1") \/ TagUpdate("r1")
    \/ TagGetPopular("r1")
    \/ updateTagUsageCounts
    \/ Return("r1", TagSnapshot)

SpecTag == Init /\ [][NextTag]_vars

\* The tags before the calls being served (none before the first response).
TagsBefore == IF "tags" \in DOMAIN pre THEN pre.tags ELSE <<>>

\* C25: a tag.update that renames a tag to the name of another tag is
\* answered with CONFLICT, and the tags are as they were before the call.
C25_RenameToTakenNameConflicts ==
    (/\ Served("r1", "tag.update")
     /\ req["r1"].in.name # None
     /\ req["r1"].in.id \in DOMAIN TagsBefore
     /\ \E i \in DOMAIN TagsBefore :
            i # req["r1"].in.id /\ TagsBefore[i].name = req["r1"].in.name[1])
    => (req["r1"].status = "CONFLICT" /\ tags = TagsBefore)

\* C26: tag.getPopular returns min(limit, number of tags) tags, none of them
\* less used than a tag left out, in descending order of usageCount.
C26_PopularAreMostUsed ==
    Served("r1", "tag.getPopular") =>
        LET result == req["r1"].out[1]
            n      == Cardinality(TagIds)
            limit  == req["r1"].in.limit
        IN  /\ req["r1"].status = "ok"
            /\ Len(result) = IF limit < n THEN limit ELSE n
            /\ \A k \in DOMAIN result : \A i \in TagIds :
                   (\A m \in DOMAIN result : result[m].id # i)
                       => result[k].usageCount >= tags[i].usageCount
            /\ \A k, m \in DOMAIN result : k < m => result[k].usageCount >= result[m].usageCount

(***************************************************************************)
(* SpecTagRace: two callers of tag.create, their statements interleaved.   *)
(***************************************************************************)
NextTagRace ==
    \E p \in Procs :
        \/ \E in \in TagCreateInputs : CallTagCreate(p, SignedIn, in)
        \/ TagCreateSelectName(p)
        \/ TagCreateSelectSlug(p)
        \/ TagCreateInsert(p)
        \/ Return(p, TagSnapshot)

SpecTagRace == Init /\ [][NextTagRace]_vars

\* C27: when two tag.create calls with the same name, not stored before, have
\* both been answered, one tag has that name, one call returned it, and the
\* other call was answered with CONFLICT.
C27_ConcurrentCreateConflict ==
    \A p, q \in Procs :
        (/\ p # q
         /\ Served(p, "tag.create") /\ Served(q, "tag.create")
         /\ req[p].in.name = req[q].in.name
         /\ \A i \in DOMAIN TagsBefore : TagsBefore[i].name # req[p].in.name)
        => /\ Cardinality({i \in TagIds : tags[i].name = req[p].in.name}) = 1
           /\ \/ req[p].status = "ok" /\ req[q].status = "CONFLICT"
              \/ req[q].status = "ok" /\ req[p].status = "CONFLICT"

(***************************************************************************)
(* useFilterStore (zustand with immer): set(recipe) runs the recipe on a   *)
(* draft of the committed state and commits the result; get() inside a     *)
(* recipe returns the committed state, not the draft.  A recipe that       *)
(* throws commits nothing.  None stands for undefined (filterHistory) and  *)
(* for undefined or NaN (historyIndex).                                    *)
(***************************************************************************)
\* What the actions of the filter store leave alone.
unfiltered == <<router, tables, serials, req, pre, tags, nextTagId, retryButton>>

HistoryLimit == 10

Truthy(flag) == IF flag THEN 1 ELSE 0

\* getActiveFiltersCount, on the state that get() returns
getActiveFiltersCount(state) ==
    Truthy(state.searchQuery # <<>>)
    + Truthy(state.selectedCategoryId # None)
    + Truthy(Len(state.selectedTagIds) > 0)
    + Truthy(state.showPublishedOnly)
    + Truthy(state.authorId # None)
    + Truthy(state.dateRange.from # None \/ state.dateRange.to # None)

\* set(recipe) of a setter: draft is the draft after the field assignment;
\* hasActiveFilters is computed from get(), the committed state.
SetFilter(draft) ==
    /\ filterStore' = [draft EXCEPT !.hasActiveFilters = getActiveFiltersCount(filterStore) > 0]
    /\ UNCHANGED unfiltered

setSearchQuery(query) == SetFilter([filterStore EXCEPT !.searchQuery = query])

setSelectedCategoryId(id) == SetFilter([filterStore EXCEPT !.selectedCategoryId = id])

setSelectedTagIds(ids) == SetFilter([filterStore EXCEPT !.selectedTagIds = ids])

addTagId(id) ==
    IF id \notin Range(filterStore.selectedTagIds)
    THEN SetFilter([filterStore EXCEPT !.selectedTagIds = Append(@, id)])
    ELSE UNCHANGED vars

removeTagId(id) ==
    SetFilter([filterStore EXCEPT !.selectedTagIds = SelectSeq(@, LAMBDA tagId : tagId # id)])

setShowPublishedOnly(show) == SetFilter([filterStore EXCEPT !.showPublishedOnly = show])

setAuthorId(id) == SetFilter([filterStore EXCEPT !.authorId = id])

setDateRange(range) == SetFilter([filterStore EXCEPT !.dateRange = range])

setSortBy(sortBy) ==
    /\ filterStore' = [filterStore EXCEPT !.sortBy = sortBy]
    /\ UNCHANGED unfiltered

setSortOrder(order) ==
    /\ filterStore' = [filterStore EXCEPT !.sortOrder = order]
    /\ UNCHANGED unfiltered

setFilterPanelOpen(open) ==
    /\ filterStore' = [filterStore EXCEPT !.isFilterPanelOpen = open]
    /\ UNCHANGED unfiltered

\* The state saveToHistory commits when called on state; state.filterHistory
\* is a list.
Saved(state) ==
    LET stateToSave == [state EXCEPT !.filterHistory = None, !.historyIndex = None]
        kept == IF Len(state.filterHistory[1]) >= HistoryLimit
                THEN Tail(state.filterHistory[1])
                ELSE state.filterHistory[1]
    IN  [state EXCEPT !.filterHistory = Some(Append(kept, stateToSave)),
                      !.historyIndex = Some(Len(kept))]

\* state.filterHistory.length throws when filterHistory is undefined.
saveToHistory ==
    IF filterStore.filterHistory = None
    THEN UNCHANGED vars
    ELSE /\ filterStore' = Saved(filterStore)
         /\ UNCHANGED unfiltered

\* The nested saveToHistory commits first (or throws); the outer recipe's
\* result, built on the draft of the state before it, is then merged over
\* the committed state and replaces every field, the history included.
clearFilters ==
    IF filterStore.filterHistory = None
    THEN UNCHANGED vars
    ELSE /\ filterStore' = [initialState EXCEPT
                              !.sortBy = filterStore.sortBy,
                              !.sortOrder = filterStore.sortOrder,
                              !.isFilterPanelOpen = filterStore.isFilterPanelOpen]
         /\ UNCHANGED unfiltered

\* state.historyIndex > 0 (false for undefined and NaN)
canUndo == filterStore.historyIndex # None /\ filterStore.historyIndex[1] > 0

\* state.historyIndex < state.filterHistory.length - 1, where filterHistory is a list
canRedo == filterStore.historyIndex # None
           /\ filterStore.historyIndex[1] < Len(filterStore.filterHistory[1]) - 1

\* historyIndex-- and historyIndex++ : undefined becomes NaN
Moved(index, by) == IF index = None THEN None ELSE Some(index[1] + by)

\* Object.assign(state, previousState) copies every field of the snapshot,
\* filterHistory: undefined and historyIndex: undefined included.
undo ==
    IF canUndo
    THEN LET previousState == filterStore.filterHistory[1][(filterStore.historyIndex[1] - 1) + 1]
         IN  /\ filterStore' = [previousState EXCEPT !.historyIndex = Moved(@, -1)]
             /\ UNCHANGED unfiltered
    ELSE UNCHANGED vars

\* canRedo() throws when filterHistory is undefined.
redo ==
    IF filterStore.filterHistory # None /\ canRedo
    THEN LET nextState == filterStore.filterHistory[1][(filterStore.historyIndex[1] + 1) + 1]
         IN  /\ filterStore' = [nextState EXCEPT !.historyIndex = Moved(@, 1)]
             /\ UNCHANGED unfiltered
    ELSE UNCHANGED vars

\* Arguments of the setters.
Queries == {<<>>, <<"x">>}
TagIdLists == {<<>>, <<1>>, <<2, 1>>}
DateRanges == [from : Opt({1}), to : Opt({2})]

InitStore == InitRace /\ router = "post.ts"

(***************************************************************************)
(* SpecFilter: the setters and clearFilters.                               *)
(***************************************************************************)
NextFilter ==
    \/ \E query \in Queries : setSearchQuery(query)
    \/ \E id \in Opt({1}) : setSelectedCategoryId(id)
    \/ \E ids \in TagIdLists : setSelectedTagIds(ids)
    \/ \E id \in 1..2 : addTagId(id)
    \/ \E id \in 1..2 : removeTagId(id)
    \/ \E show \in BOOLEAN : setShowPublishedOnly(show)
    \/ \E id \in Opt({1}) : setAuthorId(id)
    \/ \E range \in DateRanges : setDateRange(range)
    \/ \E sortBy \in {"createdAt", "title"} : setSortBy(sortBy)
    \/ \E order \in {"asc", "desc"} : setSortOrder(order)
    \/ \E open \in BOOLEAN : setFilterPanelOpen(open)
    \/ clearFilters

SpecFilter == InitStore /\ [][NextFilter]_vars

\* C28: hasActiveFilters is true exactly when getActiveFiltersCount() of the
\* state an action produced is greater than 0.
C28_HasActiveFiltersMatchesCount ==
    filterStore.hasActiveFilters = (getActiveFiltersCount(filterStore) > 0)

(***************************************************************************)
(* SpecHistory: saveToHistory, undo, redo, clearFilters and two setters.   *)
(***************************************************************************)
NextHistory ==
    \/ saveToHistory
    \/ undo
    \/ redo
    \/ clearFilters
    \/ setSearchQuery(<<"x">>)
    \/ setShowPublishedOnly(TRUE)

SpecHistory == InitStore /\ [][NextHistory]_vars

\* C29: filterHistory is a list of at most 10 snapshots, and historyIndex is
\* an integer from -1 to length(filterHistory) - 1.
C29_HistoryWellFormed ==
    /\ filterStore.filterHistory # None
    /\ filterStore.historyIndex # None
    /\ Len(filterStore.filterHistory[1]) <= HistoryLimit
    /\ filterStore.historyIndex[1] >= -1
    /\ filterStore.historyIndex[1] <= Len(filterStore.filterHistory[1]) - 1

(***************************************************************************)
(* RetryButton: React renders after the state updates of an event, so the  *)
(* button on screen and the handleRetry closure are those of the current   *)
(* state; a disabled button dispatches no click.                           *)
(***************************************************************************)
\* The maxRetries prop is drawn from 0..MaxRetriesProp.
MaxRetriesProp == 8

\* The steps of the first MaxRuns unfinished handleRetry calls are taken.
MaxRuns == 2

\* What the retry button leaves alone.
unretried == <<router, tables, serials, req, pre, tags, nextTagId, filterStore>>

\* err instanceof Error ? err.message : 'Retry failed'
RetryFailed == <<"Retry failed">>
ErrorMessages == {<<"timeout">>, <<"offline">>, RetryFailed}
MaximumExceeded == <<"Maximum retry attempts exceeded">>

RECURSIVE Pow2(_)
Pow2(n) == IF n = 0 THEN 1 ELSE 2 * Pow2(n - 1)

\* The disabled prop without the isRetrying test.
DisabledAtMaxOnly(b) == b.retryCount >= b.maxRetries

\* disabled={isRetrying || isMaxRetriesReached}
ButtonDisabled(b) == b.isRetrying \/ b.retryCount >= b.maxRetries

Without(runs, i) == SubSeq(runs, 1, i - 1) \o SubSeq(runs, i + 1, Len(runs))

\* onClick={handleRetry}, up to the first await: without backoff onRetry is
\* called at once.
Click ==
    LET b == retryButton
    IN  /\ ~ButtonDisabled(b)
        /\ retryButton' =
             IF b.retryCount >= b.maxRetries
             THEN [b EXCEPT !.error = Some(MaximumExceeded)]
             ELSE [b EXCEPT !.isRetrying = TRUE, !.error = None,
                            !.runs = Append(@,
                                [phase |-> IF b.retryCount > 0 THEN "backoff" ELSE "calling",
                                 delay |-> Pow2(b.retryCount) * 1000])]
        /\ UNCHANGED unretried

\* The timer of run i fires: await Promise.resolve(onRetry()) calls onRetry.
BackoffElapsed(i) ==
    /\ i \in DOMAIN retryButton.runs
    /\ retryButton.runs[i].phase = "backoff"
    /\ retryButton' = [retryButton EXCEPT !.runs[i].phase = "calling"]
    /\ UNCHANGED unretried

\* onRetry of run i has succeeded: setRetryCount(0), finally setIsRetrying(false)
OnRetryResolves(i) ==
    /\ i \in DOMAIN retryButton.runs
    /\ retryButton.runs[i].phase = "calling"
    /\ retryButton' = [retryButton EXCEPT !.retryCount = 0, !.isRetrying = FALSE,
                                          !.runs = Without(@, i), !.failed = 0]
    /\ UNCHANGED unretried

\* onRetry of run i has thrown: setRetryCount(prev => prev + 1), setError,
\* finally setIsRetrying(false)
OnRetryRejects(i, message) ==
    /\ i \in DOMAIN retryButton.runs
    /\ retryButton.runs[i].phase = "calling"
    /\ retryButton' = [retryButton EXCEPT !.retryCount = @ + 1, !.error = Some(message),
                                          !.isRetrying = FALSE,
                                          !.runs = Without(@, i), !.failed = @ + 1]
    /\ UNCHANGED unretried

InitRetry ==
    /\ router = "post.ts"
    /\ tags = <<>>
    /\ nextTagId = 1
    /\ filterStore = initialState
    /\ \E maxRetries \in 0..MaxRetriesProp : retryButton = Mounted(maxRetries)
    /\ users = {SeedUser} /\ nextUserId = 2
    /\ posts = <<>>
    /\ categories = <<>>
    /\ postCategories = {}
    /\ nextPostId = 1
    /\ nextCatId = 1
    /\ clock = 1
    /\ req = [p \in Procs |-> NoRequest]
    /\ pre = Snapshot

NextRetry ==
    \/ Click
    \/ \E i \in 1..MaxRuns :
         \/ BackoffElapsed(i)
         \/ OnRetryResolves(i)
         \/ \E message \in ErrorMessages : OnRetryRejects(i, message)

SpecRetry == InitRetry /\ [][NextRetry]_vars

\* The runs that are waiting for onRetry.
Calling(b) == {i \in DOMAIN b.runs : b.runs[i].phase = "calling"}

\* C30: retryCount stays within 0..maxRetries and equals the number of
\* attempts failed since the last success; at most one attempt is in
\* progress; and once maxRetries attempts in a row have failed, the button
\* is and stays disabled and no step calls onRetry.
C30_RetriesBounded ==
    /\ [](/\ retryButton.retryCount \in 0..retryButton.maxRetries
          /\ retryButton.retryCount = retryButton.failed
          /\ Len(retryButton.runs) <= 1
          /\ (retryButton.runs # <<>> => retryButton.isRetrying))
    /\ [][retryButton.failed >= retryButton.maxRetries =>
             /\ ButtonDisabled(retryButton) /\ ButtonDisabled(retryButton')
             /\ Cardinality(Calling(retryButton')) <= Cardinality(Calling(retryButton))
             /\ Len(retryButton'.runs) <= Len(retryButton.runs)]_vars

\* C30 witness: maxRetries = 3 attempts in a row have failed, the last one
\* after its backoff, and the button is disabled with no attempt in progress.
C30_Witness ==
    /\ retryButton.maxRetries = DefaultMaxRetries
    /\ retryButton.failed = DefaultMaxRetries
    /\ retryButton.retryCount = DefaultMaxRetries
    /\ retryButton.error = Some(RetryFailed)
    /\ retryButton.runs = <<>>
    /\ ButtonDisabled(retryButton)
=============================================================================
